---- MODULE Spec2Model ----
(***************************************************************************)
(* Model of Medical_Agent/main.py: the evidence retriever                  *)
(* (retrieve_medical_data), the pharmacy locator (get_nearby_pharmacies)   *)
(* and the Streamlit button handler that drives both.                      *)
(*                                                                         *)
(* Strings whose content never matters are modelled by what the code reads *)
(* of them: a page text is the pair (page it came from, number of          *)
(* characters); text[:2000] keeps the page and caps the length; a joined   *)
(* text is the sequence of its pieces with the separators between them.    *)
(***************************************************************************)
EXTENDS Integers, Sequences, FiniteSets, TLC

\* ---------------------------------------------------------------- bounds
MaxRetriesArg == 4        \* retries argument of a direct call: 0..MaxRetriesArg
MaxDelayArg == 2          \* delay argument of a direct call: 1..MaxDelayArg
PharmResultBound == 2     \* records a pharmacy search returns in the model
MaxParas == 2             \* <p> elements of a fetched page
MaxRuns == 2              \* script runs (button presses) of one session

\* ------------------------------------------------------ program constants
MaxChars == 2000          \* text[:2000]
EvidenceMaxResults == 3   \* ddgs.text(..., max_results=3)
PharmMaxResults == 5      \* ddgs.text(query, max_results=5)
DefaultRetries == 3       \* retries=3
DefaultDelay == 2         \* delay=2

\* ----------------------------------------------------------- input sets
NoField == "<missing>"    \* a key the record does not carry
Conditions == {"", "flu"}
Locations == {"", "Delhi"}
Titles == {NoField, "t1"}
Hrefs == {NoField, "u1", "u2"}
ParaLens == {0, MaxChars}                   \* characters of one <p> element
PageFailures == {"fetch_error", "timeout", "parse_error"}
SearchErrors == {"ddg_ratelimit", "ddg_other", "other"}
\* "ddg_ratelimit": DuckDuckGoSearchException whose str holds "202 Ratelimit"
\* "ddg_other":     DuckDuckGoSearchException without the marker
\* "other":         any other Exception

Min(a, b) == IF a < b THEN a ELSE b

SeqsUpTo(S, n) == UNION {[1..k -> S] : k \in 0..n}

EvRecords == [title : {"t1"}, href : Hrefs]
PhRecords == [title : Titles, href : Hrefs]

\* What the search service may answer to max_results = n.
EvSearchAnswers == SeqsUpTo(EvRecords, EvidenceMaxResults)
PhSearchAnswers == SeqsUpTo(PhRecords, Min(PharmMaxResults, PharmResultBound))
ParaLists == SeqsUpTo(ParaLens, MaxParas)

\* ------------------------------------------------------- pure functions
RECURSIVE SumSeq(_)
SumSeq(s) == IF s = <<>> THEN 0 ELSE Head(s) + SumSeq(Tail(s))

\* " ".join(p.get_text() for p in soup.find_all("p")): its length
JoinSpaceLen(paras) ==
    IF paras = <<>> THEN 0 ELSE SumSeq(paras) + (Len(paras) - 1)

\* if text:   (line 91)
HasTextAlways(n) == TRUE
HasText(n) == n > 0

\* text[:2000]
TruncateNone(n) == n
Truncate(n) == Min(n, MaxChars)

\* The separator piece "\n\n"
Sep == [page |-> 0, len |-> 2]

\* "\n\n".join(docs), as the sequence of its pieces
RECURSIVE JoinDocs(_)
JoinDocs(d) ==
    IF d = <<>> THEN <<>>
    ELSE IF Len(d) = 1 THEN <<d[1]>>
    ELSE <<d[1], Sep>> \o JoinDocs(Tail(d))

RECURSIVE TextLen(_)
TextLen(t) == IF t = <<>> THEN 0 ELSE Head(t).len + TextLen(Tail(t))

\* if rag_text:   (line 138)
HasEvidenceAlways(t) == TRUE
HasEvidence(t) == TextLen(t) > 0

\* except DuckDuckGoSearchException as e: if "202 Ratelimit" in str(e)
IsRateLimitAnyDdg(err) == err \in {"ddg_ratelimit", "ddg_other"}
IsRateLimit(err) == err = "ddg_ratelimit"

\* for attempt in range(retries)
LoopContinuesOffByOne(a, n) == a <= n
LoopContinues(a, n) == a < n

\* delay * (attempt + 1)
BackoffDelay(d, a) == d * (a + 1)

\* [(r["title"], r["href"]) for r in results if "href" in r]
HasHref(r) == r.href # NoField
HasTitle(r) == r.title # NoField
RECURSIVE Entries(_)
Entries(rs) ==
    IF rs = <<>> THEN <<>>
    ELSE IF HasHref(Head(rs))
         THEN <<<<Head(rs).title, Head(rs).href>>>> \o Entries(Tail(rs))
         ELSE Entries(Tail(rs))
\* r["title"] raises KeyError for a record that has "href" and no "title"
RaisesKeyError(rs) == \E i \in 1..Len(rs) : HasHref(rs[i]) /\ ~HasTitle(rs[i])

\* ------------------------------------------------------------ variables
VARIABLES
    entry,        \* "ui": the Streamlit script; "direct": a call of get_nearby_pharmacies
    pc,           \* position of the script run
    runs,         \* script runs started in this session
    chat,         \* turns held by st.session_state.chat
    condition, location,
    rag_text, rag_sources, gotEvidence,
    llmCalls,     \* send_message calls of this run
    pharmCalls,   \* get_nearby_pharmacies calls of this run
    ui,           \* what this run rendered, in order
    \* frame of retrieve_medical_data
    rpc, results, idx, docs, sources, extracted, retText, retSources,
    \* frame of get_nearby_pharmacies
    ppc, retries, delay, attempt, plog, sleeps, pResults, pret

uiVars == <<pc, runs, chat, condition, location, rag_text, rag_sources,
            gotEvidence, llmCalls, pharmCalls, ui>>
rVars == <<rpc, results, idx, docs, sources, extracted, retText, retSources>>
pVars == <<ppc, retries, delay, attempt, plog, sleeps, pResults, pret>>
vars == <<entry, uiVars, rVars, pVars>>

NoRetrieveFrame ==
    /\ rpc = "idle" /\ results = <<>> /\ idx = 0 /\ docs = <<>>
    /\ sources = <<>> /\ extracted = <<>> /\ retText = <<>> /\ retSources = <<>>

NoPharmFrame ==
    /\ ppc = "idle" /\ retries = 0 /\ delay = 0 /\ attempt = 0
    /\ plog = <<>> /\ sleeps = <<>> /\ pResults = <<>> /\ pret = <<>>

FreshRun ==
    /\ condition = "" /\ location = ""
    /\ rag_text = <<>> /\ rag_sources = <<>> /\ gotEvidence = FALSE
    /\ llmCalls = 0 /\ pharmCalls = 0 /\ ui = <<>>

InitUI ==
    /\ entry = "ui" /\ pc = "idle" /\ runs = 0 /\ chat = 0
    /\ FreshRun /\ NoRetrieveFrame /\ NoPharmFrame

\* get_nearby_pharmacies(location, retries, delay) called on its own
InitDirect ==
    /\ entry = "direct" /\ pc = "direct" /\ runs = 0 /\ chat = 0
    /\ FreshRun /\ NoRetrieveFrame
    /\ ppc = "loop"
    /\ retries \in 0..MaxRetriesArg
    /\ delay \in 1..MaxDelayArg
    /\ attempt = 0 /\ plog = <<>> /\ sleeps = <<>> /\ pResults = <<>> /\ pret = <<>>

Init == InitUI \/ InitDirect


\* ------------------------------------------- retrieve_medical_data(query)
PopRetrieveFrame ==
    /\ rpc' = "idle" /\ results' = <<>> /\ idx' = 0 /\ docs' = <<>>
    /\ sources' = <<>> /\ extracted' = <<>> /\ retText' = <<>> /\ retSources' = <<>>

\* results = ddgs.text(..., max_results=3) answers; docs, sources = [], []
RetrSearchOk(ans) ==
    /\ rpc = "search"
    /\ results' = ans /\ idx' = 1 /\ docs' = <<>> /\ sources' = <<>>
    /\ rpc' = "loop"
    /\ UNCHANGED <<extracted, retText, retSources>>
    /\ UNCHANGED <<entry, uiVars, pVars>>

\* ddgs.text raises; the call is inside no try block, the exception leaves
\* the function
RetrSearchRaises(err) ==
    /\ rpc = "search"
    /\ rpc' = "raised"
    /\ UNCHANGED <<results, idx, docs, sources, extracted, retText, retSources>>
    /\ UNCHANGED <<entry, uiVars, pVars>>

\* Skipping a result: except Exception: continue
SkipResult ==
    /\ extracted' = Append(extracted, -1)
    /\ idx' = idx + 1
    /\ UNCHANGED <<rpc, results, docs, sources, retText, retSources>>
    /\ UNCHANGED <<entry, uiVars, pVars>>

\* url = res['href'] raises KeyError
RetrPageNoHref ==
    /\ rpc = "loop" /\ idx <= Len(results)
    /\ ~HasHref(results[idx])
    /\ SkipResult

\* requests.get or BeautifulSoup raises
RetrPageFails(kind) ==
    /\ rpc = "loop" /\ idx <= Len(results)
    /\ HasHref(results[idx])
    /\ SkipResult

\* the page is fetched and parsed; paras are the lengths of its <p> texts
RetrPageExtracted(paras) ==
    /\ rpc = "loop" /\ idx <= Len(results)
    /\ HasHref(results[idx])
    /\ LET n == JoinSpaceLen(paras) IN
        /\ extracted' = Append(extracted, n)
        /\ IF HasText(n)
           THEN /\ docs' = Append(docs, [page |-> idx, len |-> Truncate(n)])
                /\ sources' = Append(sources, results[idx].href)
           ELSE UNCHANGED <<docs, sources>>
    /\ idx' = idx + 1
    /\ UNCHANGED <<rpc, results, retText, retSources>>
    /\ UNCHANGED <<entry, uiVars, pVars>>

\* return "\n\n".join(docs), sources
RetrReturn ==
    /\ rpc = "loop" /\ idx > Len(results)
    /\ retText' = JoinDocs(docs)
    /\ retSources' = sources
    /\ rpc' = "returned"
    /\ UNCHANGED <<results, idx, docs, sources, extracted>>
    /\ UNCHANGED <<entry, uiVars, pVars>>

\* ------------------------------ get_nearby_pharmacies(location, retries, delay)
PopPharmFrame ==
    /\ ppc' = "idle" /\ retries' = 0 /\ delay' = 0 /\ attempt' = 0
    /\ plog' = <<>> /\ sleeps' = <<>> /\ pResults' = <<>> /\ pret' = <<>>

\* ddgs.text answers; the comprehension returns, or raises KeyError, which
\* except Exception: break turns into return []
PharmSearchOk(ans) ==
    /\ ppc = "loop" /\ LoopContinues(attempt, retries)
    /\ plog' = Append(plog, "ok")
    /\ pResults' = ans
    /\ pret' = IF RaisesKeyError(ans) THEN <<>> ELSE Entries(ans)
    /\ ppc' = "returned"
    /\ UNCHANGED <<retries, delay, attempt, sleeps>>
    /\ UNCHANGED <<entry, uiVars, rVars>>

\* DuckDuckGoSearchException with the marker: sleep, next attempt
PharmRateLimited(err) ==
    /\ ppc = "loop" /\ LoopContinues(attempt, retries)
    /\ IsRateLimit(err)
    /\ plog' = Append(plog, err)
    /\ sleeps' = Append(sleeps, BackoffDelay(delay, attempt))
    /\ attempt' = attempt + 1
    /\ UNCHANGED <<ppc, retries, delay, pResults, pret>>
    /\ UNCHANGED <<entry, uiVars, rVars>>

\* any other exception: break, return []
PharmAborts(err) ==
    /\ ppc = "loop" /\ LoopContinues(attempt, retries)
    /\ ~IsRateLimit(err)
    /\ plog' = Append(plog, err)
    /\ pret' = <<>>
    /\ ppc' = "returned"
    /\ UNCHANGED <<retries, delay, attempt, sleeps, pResults>>
    /\ UNCHANGED <<entry, uiVars, rVars>>

\* range(retries) is used up: return []
PharmExhausted ==
    /\ ppc = "loop" /\ ~LoopContinues(attempt, retries)
    /\ pret' = <<>>
    /\ ppc' = "returned"
    /\ UNCHANGED <<retries, delay, attempt, plog, sleeps, pResults>>
    /\ UNCHANGED <<entry, uiVars, rVars>>

\* ------------------------------------------------- the button handler
\* A script run: st.button(...) and condition; every run starts from the top
Submit(c, l) ==
    /\ entry = "ui" /\ pc \in {"idle", "done", "crashed"}
    /\ runs < MaxRuns
    /\ runs' = runs + 1
    /\ condition' = c /\ location' = l
    /\ rag_text' = <<>> /\ rag_sources' = <<>> /\ gotEvidence' = FALSE
    /\ llmCalls' = 0 /\ pharmCalls' = 0 /\ ui' = <<>>
    /\ IF c = ""
       THEN pc' = "done" /\ UNCHANGED rVars
       ELSE /\ pc' = "retrieving"
            /\ rpc' = "search"
            /\ UNCHANGED <<results, idx, docs, sources, extracted, retText, retSources>>
    /\ UNCHANGED <<entry, chat, pVars>>

\* rag_text, rag_sources = retrieve_medical_data(condition); if rag_text: ... else: st.warning
TakeEvidence ==
    /\ pc = "retrieving" /\ rpc = "returned"
    /\ rag_text' = retText /\ rag_sources' = retSources
    /\ gotEvidence' = TRUE
    /\ PopRetrieveFrame
    /\ IF HasEvidence(retText)
       THEN pc' = "llm" /\ UNCHANGED ui
       ELSE pc' = "pharm_check" /\ ui' = Append(ui, "no_data_warning")
    /\ UNCHANGED <<entry, runs, chat, condition, location, llmCalls, pharmCalls, pVars>>

\* the exception of retrieve_medical_data leaves the script: the run ends
\* at line 136
RetrieveRaised ==
    /\ pc = "retrieving" /\ rpc = "raised"
    /\ PopRetrieveFrame
    /\ pc' = "crashed"
    /\ ui' = Append(ui, "exception")
    /\ UNCHANGED <<entry, runs, chat, condition, location, rag_text, rag_sources,
                   gotEvidence, llmCalls, pharmCalls, pVars>>

\* response = chat.send_message(full_prompt); advice and sources rendered
LLMAnswers ==
    /\ pc = "llm"
    /\ llmCalls' = llmCalls + 1
    /\ chat' = chat + 1
    /\ ui' = IF rag_sources # <<>> THEN ui \o <<"advice", "sources">>
                                   ELSE Append(ui, "advice")
    /\ pc' = "pharm_check"
    /\ UNCHANGED <<entry, runs, condition, location, rag_text, rag_sources,
                   gotEvidence, pharmCalls, rVars, pVars>>

\* send_message raises: except Exception as e: st.error(...)
LLMFails ==
    /\ pc = "llm"
    /\ llmCalls' = llmCalls + 1
    /\ ui' = Append(ui, "llm_error")
    /\ pc' = "pharm_check"
    /\ UNCHANGED <<entry, runs, chat, condition, location, rag_text, rag_sources,
                   gotEvidence, pharmCalls, rVars, pVars>>

\* if location: pharmacies = get_nearby_pharmacies(location)
CallPharmacies ==
    /\ pc = "pharm_check" /\ location # ""
    /\ pharmCalls' = pharmCalls + 1
    /\ ppc' = "loop"
    /\ retries' = DefaultRetries /\ delay' = DefaultDelay
    /\ attempt' = 0 /\ plog' = <<>> /\ sleeps' = <<>> /\ pResults' = <<>> /\ pret' = <<>>
    /\ pc' = "pharm_wait"
    /\ UNCHANGED <<entry, runs, chat, condition, location, rag_text, rag_sources,
                   gotEvidence, llmCalls, ui, rVars>>

SkipPharmacies ==
    /\ pc = "pharm_check" /\ location = ""
    /\ pc' = "done"
    /\ UNCHANGED <<entry, runs, chat, condition, location, rag_text, rag_sources,
                   gotEvidence, llmCalls, pharmCalls, ui, rVars, pVars>>

\* if pharmacies: the list is rendered; else: st.warning
RenderPharmacies ==
    /\ pc = "pharm_wait" /\ ppc = "returned"
    /\ ui' = Append(ui, IF pret # <<>> THEN "pharmacies" ELSE "pharm_warning")
    /\ PopPharmFrame
    /\ pc' = "done"
    /\ UNCHANGED <<entry, runs, chat, condition, location, rag_text, rag_sources,
                   gotEvidence, llmCalls, pharmCalls, rVars>>

Next ==
    \/ \E c \in Conditions, l \in Locations : Submit(c, l)
    \/ \E ans \in EvSearchAnswers : RetrSearchOk(ans)
    \/ \E err \in SearchErrors : RetrSearchRaises(err)
    \/ RetrPageNoHref
    \/ \E kind \in PageFailures : RetrPageFails(kind)
    \/ \E paras \in ParaLists : RetrPageExtracted(paras)
    \/ RetrReturn
    \/ TakeEvidence
    \/ RetrieveRaised
    \/ LLMAnswers
    \/ LLMFails
    \/ CallPharmacies
    \/ SkipPharmacies
    \/ \E ans \in PhSearchAnswers : PharmSearchOk(ans)
    \/ \E err \in SearchErrors : PharmRateLimited(err)
    \/ \E err \in SearchErrors : PharmAborts(err)
    \/ PharmExhausted
    \/ RenderPharmacies

Spec == Init /\ [][Next]_vars

\* ======================================================= the claims

\* ---- helpers of the claims' statements
Last(s) == s[Len(s)]
AllRateLimited(log) == \A i \in 1..Len(log) : log[i] = "ddg_ratelimit"
\* the pieces of an evidence text that are excerpts, in order
Excerpts(t) == SelectSeq(t, LAMBDA p : p.page # 0)
\* the results whose page gave a non-empty text, in retrieval order
RECURSIVE GoodFrom(_, _)
GoodFrom(ext, i) ==
    IF i > Len(ext) THEN <<>>
    ELSE IF ext[i] > 0 THEN <<i>> \o GoodFrom(ext, i + 1)
    ELSE GoodFrom(ext, i + 1)
GoodPages == GoodFrom(extracted, 1)
\* the (title, link) pairs of the records that carry both fields, in order
CompleteEntries(rs) ==
    LET keep == SelectSeq(rs, LAMBDA r : r.href # NoField /\ r.title # NoField)
    IN [j \in 1..Len(keep) |-> <<keep[j].title, keep[j].href>>]
\* the (title, link) pairs of the records that carry a link, in order
LinkedEntries(rs) ==
    LET keep == SelectSeq(rs, LAMBDA r : r.href # NoField)
    IN [j \in 1..Len(keep) |-> <<keep[j].title, keep[j].href>>]
RetrieveEnded == rpc \in {"returned", "raised"}
NoPageExtracted == \A i \in 1..Len(extracted) : extracted[i] <= 0

\* C1: retrieve_medical_data never raises: whenever it ends with zero pages
\* successfully extracted (no results, every page failed or was empty, or the
\* search call itself failed) it has returned ("", []).
C1_NeverRaises ==
    (RetrieveEnded /\ NoPageExtracted)
        => (rpc = "returned" /\ retText = <<>> /\ retSources = <<>>)

\* C2: when the search is rate-limited on attempts 1..k (1 <= k < retries) and
\* answers on attempt k+1, get_nearby_pharmacies returns the entries of that
\* answer, has slept delay*1, ..., delay*k in that order, and has made no
\* search call after the successful one.
C2_RetryThenSuccess ==
    (/\ ppc = "returned" /\ Len(plog) >= 2 /\ Last(plog) = "ok"
     /\ AllRateLimited(SubSeq(plog, 1, Len(plog) - 1)))
        => LET k == Len(plog) - 1 IN
            /\ k < retries
            /\ pret \in {CompleteEntries(pResults), LinkedEntries(pResults)}
            /\ sleeps = [i \in 1..k |-> delay * i]

\* The retry part of C2 alone: the sleeps before a successful attempt k+1 are
\* delay*1, ..., delay*k, and "ok" is the last search call of the frame.
C2_BackoffBeforeSuccess ==
    \A i \in 1..Len(plog) : plog[i] = "ok"
        => /\ i = Len(plog) /\ ppc = "returned" /\ i <= retries
           /\ sleeps = [j \in 1..(i - 1) |-> delay * j]

\* C3: an error that is not the rate-limit error, on any attempt, ends
\* get_nearby_pharmacies with []: no search attempt and no sleep follows it
\* (none at all when it is the first attempt).
C3_OtherErrorAborts ==
    \A i \in 1..Len(plog) : plog[i] \in {"ddg_other", "other"}
        => /\ i = Len(plog)
           /\ ppc = "returned" /\ pret = <<>>
           /\ Len(sleeps) = i - 1
           /\ AllRateLimited(SubSeq(plog, 1, i - 1))

C3_Witness ==
    /\ ppc = "returned" /\ pret = <<>>
    /\ plog = <<"ddg_ratelimit", "ddg_other">>
    /\ Len(sleeps) = 1

\* C4: the number of search attempts never exceeds retries; when every
\* attempt is rate-limited the function returns [] after exactly retries
\* attempts, and the return is enabled as soon as they are used up.
C4_BoundedAttempts ==
    /\ Len(plog) <= retries
    /\ (ppc = "returned" /\ AllRateLimited(plog))
            => (Len(plog) = retries /\ pret = <<>>)
    /\ (ppc = "loop" /\ Len(plog) = retries) => ENABLED PharmExhausted

C4_Witness ==
    /\ ppc = "returned" /\ retries = 3 /\ pret = <<>>
    /\ plog = <<"ddg_ratelimit", "ddg_ratelimit", "ddg_ratelimit">>

\* C5: the returned sources are exactly the URLs of the results whose page
\* gave a non-empty text, in retrieval order; the text holds one excerpt per
\* source, in the same order; every result was processed, whatever happened
\* to the ones before it.
C5_SourcesMatchExcerpts ==
    rpc = "returned" =>
        LET ex == Excerpts(retText) IN
        /\ Len(extracted) = Len(results)
        /\ retSources = [j \in 1..Len(GoodPages) |-> results[GoodPages[j]].href]
        /\ Len(ex) = Len(retSources)
        /\ \A j \in 1..Len(ex) : ex[j].page = GoodPages[j]

C5_Witness ==
    /\ rpc = "returned" /\ Len(results) = 3
    /\ extracted[1] = -1 /\ extracted[2] = 0 /\ extracted[3] > 0
    /\ retSources = <<results[3].href>>

\* C6: after a successful search get_nearby_pharmacies returns one
\* (title, link) entry per record that carries a link, in order; a record
\* that lacks a field is left out and the entries of the others are kept.
C6_EntriesOfLinkedRecords ==
    (ppc = "returned" /\ plog # <<>> /\ Last(plog) = "ok")
        => pret \in {CompleteEntries(pResults), LinkedEntries(pResults)}

\* C7: in a run of the handler send_message is called exactly once when the
\* returned evidence text is non-empty, and never when it is empty, in which
\* case the "no medical data" warning is rendered.
C7_LLMIffEvidence ==
    LET nonEmpty == \E i \in 1..Len(rag_text) : rag_text[i].len > 0
        warned == \E i \in 1..Len(ui) : ui[i] = "no_data_warning"
    IN
    /\ llmCalls <= 1
    /\ pc = "llm" => (nonEmpty /\ llmCalls = 0)
    /\ llmCalls = 1 => (gotEvidence /\ nonEmpty /\ ~warned)
    /\ (pc \in {"pharm_check", "pharm_wait", "done"} /\ gotEvidence)
            => IF nonEmpty THEN llmCalls = 1 /\ ~warned
                           ELSE llmCalls = 0 /\ warned

C7_Witness ==
    /\ pc = "done" /\ gotEvidence /\ llmCalls = 1
    /\ \E i \in 1..Len(ui) : ui[i] = "llm_error"

\* C8: a run with a non-empty condition and a non-empty location that has
\* ended has called get_nearby_pharmacies, whatever the evidence step and
\* the LLM call did.
C8_PharmacyAlwaysRuns ==
    (pc \in {"done", "crashed"} /\ condition # "" /\ location # "")
        => pharmCalls = 1

\* C9: every excerpt of the returned evidence text has at most 2000
\* characters and is the first min(2000, length) characters of its page's
\* text; the text is the excerpts in retrieval order with a blank-line
\* separator between neighbours; there are at most 3 excerpts.
C9_ExcerptsCapped ==
    rpc = "returned" =>
        LET ex == Excerpts(retText)
            n == Len(ex)
        IN
        /\ n <= 3
        /\ \A j \in 1..n :
            /\ ex[j].len <= 2000
            /\ ex[j].len = Min(2000, extracted[ex[j].page])
            /\ j > 1 => ex[j - 1].page < ex[j].page
        /\ Len(retText) = IF n = 0 THEN 0 ELSE 2 * n - 1
        /\ \A i \in 1..Len(retText) :
            IF i % 2 = 0 THEN retText[i] = [page |-> 0, len |-> 2]
                         ELSE retText[i] = ex[(i + 1) \div 2]

C9_Witness ==
    /\ rpc = "returned" /\ Len(Excerpts(retText)) = 3
    /\ extracted[1] = 1 /\ extracted[2] = 2001 /\ extracted[3] = 4001
    /\ retText[3].len = 2000 /\ retText[5].len = 2000

\* C10: every backoff sleep is followed by another search attempt: when all
\* retries attempts were rate-limited, the function has slept retries - 1
\* times.
C10_NoSleepAfterLastAttempt ==
    (ppc = "returned" /\ retries >= 1 /\ Len(plog) = retries /\ AllRateLimited(plog))
        => Len(sleeps) = retries - 1

\* What the code does on exhaustion: one sleep per rate-limited attempt, the
\* last one included.
C10_SleepPerRateLimit ==
    ppc # "idle" =>
        sleeps = [i \in 1..Len(SelectSeq(plog, LAMBDA o : o = "ddg_ratelimit")) |-> delay * i]

====
